---- MODULE Spec2Model ----
(***************************************************************************)
(* Model of src/app.py: the four download routes (POST/GET /song and       *)
(* /video), the shared "downloads" directory they write into, and the      *)
(* shutdown purge of the lifespan handler.                                 *)
(*                                                                         *)
(* File names are sequences of one-character strings so that               *)
(* str.replace works on substrings exactly as in Python.                   *)
(***************************************************************************)
EXTENDS Integers, Sequences, FiniteSets, TLC

VARIABLES req, dir, life

vars == <<req, dir, life>>

(***************************************************************************)
(* Strings                                                                 *)
(***************************************************************************)
DOT == <<".">>
WEBM == <<"w", "e", "b", "m">>
M4A == <<"m", "4", "a">>
MP3 == <<"m", "p", "3">>
MP4 == <<"m", "p", "4">>
OPUS == <<"o", "p", "u", "s">>
DOWNLOADS == <<"d", "o", "w", "n", "l", "o", "a", "d", "s">>
SLASH == <<"/">>

\* Python str.replace(old, new): every non-overlapping occurrence, left to
\* right; ReplaceFrom is the scan from position i on.
RECURSIVE ReplaceFrom(_, _, _, _)
ReplaceFrom(s, i, old, new) ==
    IF i + Len(old) - 1 > Len(s) THEN SubSeq(s, i, Len(s))
    ELSE IF SubSeq(s, i, i + Len(old) - 1) = old
         THEN new \o ReplaceFrom(s, i + Len(old), old, new)
         ELSE <<s[i]>> \o ReplaceFrom(s, i + 1, old, new)

\* (s is bound to its value once, whatever expression it is given as.)
Replace(s, old, new) == CHOOSE t \in {ReplaceFrom(v, 1, old, new) : v \in {s}} : TRUE

\* The extension of a path: what follows its last ".".
RECURSIVE ExtOf(_)
ExtOf(p) ==
    IF \E i \in 1..Len(p) : p[i] = "."
    THEN ExtOf(Tail(p))
    ELSE p

(***************************************************************************)
(* Requests and sources                                                    *)
(***************************************************************************)
\* The requests in flight together.
Requests == {1, 2}

\* The four routes: media kind by path, access mode by method.
Routes == [kind : {"song", "video"}, method : {"POST", "GET"}]

\* A request that carries no url at all (missing JSON field / query parameter).
ABSENT == <<"<absent>">>
EMPTY == <<>>
URL_BAD == <<"x">>
URL_1 == <<"1">>
URL_2 == <<"2">>
URL_3 == <<"3">>
URL_4 == <<"4">>

URLs == {ABSENT, EMPTY, URL_BAD, URL_1, URL_2, URL_3, URL_4}

NONE == <<"<none>">>

\* What the extractor finds behind each url: the title and the streams on
\* offer.  bestaudio: the extension of the best audio-only stream; mp4video /
\* m4aaudio: whether a video-only mp4 and an audio-only m4a stream exist;
\* bestmp4: whether a pre-muxed mp4 exists; best: the extension of the best
\* pre-muxed stream.
Catalog(u) ==
    CASE u = URL_1 -> [resolves |-> TRUE, title |-> <<"a">>, bestaudio |-> WEBM,
                       mp4video |-> TRUE, m4aaudio |-> TRUE, bestmp4 |-> TRUE, best |-> MP4]
      [] u = URL_2 -> [resolves |-> TRUE, title |-> <<"a">>, bestaudio |-> OPUS,
                       mp4video |-> FALSE, m4aaudio |-> FALSE, bestmp4 |-> FALSE, best |-> WEBM]
      [] u = URL_3 -> [resolves |-> TRUE, title |-> <<"b">> \o DOT \o M4A, bestaudio |-> M4A,
                       mp4video |-> FALSE, m4aaudio |-> TRUE, bestmp4 |-> TRUE, best |-> MP4]
      [] u = URL_4 -> [resolves |-> TRUE, title |-> <<"c">>, bestaudio |-> NONE,
                       mp4video |-> FALSE, m4aaudio |-> FALSE, bestmp4 |-> FALSE, best |-> NONE]
      [] OTHER -> [resolves |-> FALSE, title |-> <<>>, bestaudio |-> NONE,
                   mp4video |-> FALSE, m4aaudio |-> FALSE, bestmp4 |-> FALSE, best |-> NONE]

\* 'format': 'bestaudio/best'
SelectAudio(src) ==
    IF src.bestaudio # NONE THEN [branch |-> "bestaudio", ext |-> src.bestaudio]
    ELSE IF src.best # NONE THEN [branch |-> "best", ext |-> src.best]
    ELSE [branch |-> "none", ext |-> NONE]

\* 'format': 'bestvideo[ext=mp4]+bestaudio[ext=m4a]/best[ext=mp4]/best',
\* 'merge_output_format': 'mp4' (applies to the merged pair only).
SelectVideo(src) ==
    IF src.mp4video /\ src.m4aaudio THEN [branch |-> "merge", ext |-> MP4]
    ELSE IF src.bestmp4 THEN [branch |-> "bestmp4", ext |-> MP4]
    ELSE IF src.best # NONE THEN [branch |-> "best", ext |-> src.best]
    ELSE [branch |-> "none", ext |-> NONE]

SelectFormat(kind, src) == IF kind = "song" THEN SelectAudio(src) ELSE SelectVideo(src)

\* 'outtmpl': 'downloads/%(title)s.%(ext)s'
prepare_filename(info) == DOWNLOADS \o SLASH \o info.title \o DOT \o info.ext

\* The file the engine leaves in the directory: FFmpegExtractAudio with
\* preferredcodec mp3 writes <stem>.mp3; a video keeps the selected extension.
ActualPath(kind, info) ==
    IF kind = "song"
    THEN DOWNLOADS \o SLASH \o info.title \o DOT \o MP3
    ELSE prepare_filename(info)

\* The handler's own derivation of the file name from the predicted one.
ResolveFilename(kind, info) ==
    IF kind = "song"
    THEN Replace(Replace(prepare_filename(info), DOT \o WEBM, DOT \o MP3), DOT \o M4A, DOT \o MP3)
    ELSE prepare_filename(info)

MediaType(kind) == IF kind = "song" THEN "audio/mpeg" ELSE "video/mp4"

(***************************************************************************)
(* Sizes                                                                   *)
(***************************************************************************)
MaxDirectMB == 50
MiB == 1024 * 1024
\* How far around the limit the artifact sizes are drawn.
SizeSlack == 1

Sizes == (MaxDirectMB * MiB - SizeSlack)..(MaxDirectMB * MiB + SizeSlack)

\* file_size = os.path.getsize(filename) / (1024 * 1024); file_size > 50.
\* The division is by a power of two, exact in floating point.
TooLarge(bytes) == bytes > MaxDirectMB * MiB

(***************************************************************************)
(* The shared directory                                                    *)
(***************************************************************************)
\* A regular file: its size, whether its content is a whole artifact
\* ("complete"), still being written ("partial") or the mix two overlapping
\* writers leave ("corrupt"), how many engine calls are writing it, and
\* whether two of them overlapped.
NewFile == [type |-> "file", size |-> 0, content |-> "partial", writers |-> 1, raced |-> FALSE]

Exists(d, p) == p \in DOMAIN d

\* The engine opens its output file: created, or truncated when it exists.
\* A second writer on a file still being written is a data race.
BeginWrite(d, p) ==
    IF Exists(d, p) /\ d[p].type = "file"
    THEN [d EXCEPT ![p] = [type |-> "file", size |-> 0, content |-> "partial",
                           writers |-> d[p].writers + 1,
                           raced |-> d[p].writers > 0]]
    ELSE [q \in DOMAIN d \cup {p} |-> IF q = p THEN NewFile ELSE d[q]]

\* The contents a finished write can leave: whole, unless writers overlapped.
ContentsAfter(f) ==
    IF f.writers > 1 THEN {"partial"}
    ELSE IF f.raced THEN {"complete", "corrupt"}
    ELSE {"complete"}

EndWrite(d, p, size, content) ==
    [d EXCEPT ![p] = [type |-> "file", size |-> size, content |-> content,
                      writers |-> d[p].writers - 1,
                      raced |-> d[p].raced /\ d[p].writers > 1]]

\* A write the engine abandons: the file stays as far as it was written.
AbortWrite(d, p) ==
    [d EXCEPT ![p].writers = d[p].writers - 1,
              ![p].raced = d[p].raced /\ d[p].writers > 1]

(***************************************************************************)
(* Request handlers                                                        *)
(***************************************************************************)
NoInfo == [title |-> <<>>, ext |-> NONE, branch |-> "none"]

NewRequest(route, u) ==
    [route |-> route, url |-> u, pc |-> "received", status |-> 0, failure |-> "None",
     calls |-> 0, info |-> NoInfo, filename |-> <<>>, exists |-> FALSE, file_size |-> 0,
     media_type |-> "", served |-> "none", after413 |-> FALSE]

\* A variant of the except clause that lets an HTTPException through and
\* reports an engine exception as an unprocessable source.
ExceptStatusByKind(raised) == IF raised = 0 THEN 422 ELSE raised

\* except Exception as e: raise HTTPException(status_code=500, detail=str(e)).
\* HTTPException is itself an Exception, so the clause also catches the
\* HTTPExceptions raised inside the try block; raised is their status, 0 for
\* an exception of the engine.
ExceptStatus(raised) == 500

\* The request ends with an error response.
Fail(r, failure, raised) ==
    req' = [req EXCEPT ![r].pc = "failed", ![r].failure = failure,
                       ![r].status = ExceptStatus(raised)]

\* return FileResponse(filename, media_type=...,
\*                     filename=os.path.basename(filename))
ReturnFileResponse(r) ==
    [req[r] EXCEPT !.pc = "succeeded", !.status = 200,
                   !.media_type = MediaType(req[r].route.kind)]

\* No request has come in on this connection yet.
Idle == [NewRequest([kind |-> "song", method |-> "POST"], ABSENT) EXCEPT !.pc = "idle"]

\* A client sends a request to one of the four routes, with or without a url.
Receive(r) ==
    /\ req[r].pc = "idle"
    /\ \E route \in Routes : \E u \in URLs : req' = [req EXCEPT ![r] = NewRequest(route, u)]
    /\ UNCHANGED <<dir, life>>

\* The framework binds url before the handler runs: DownloadRequest.url: str
\* and Query(...) are required and accept any string, the empty one included.
Validate(r) ==
    /\ req[r].pc = "received"
    /\ IF req[r].url = ABSENT
       THEN req' = [req EXCEPT ![r].pc = "failed", ![r].failure = "InvalidRequest",
                               ![r].status = 422]
       ELSE req' = [req EXCEPT ![r].pc = "validated"]
    /\ UNCHANGED <<dir, life>>

\* info = ydl.extract_info(url, download=True): the call is made.  For a url
\* that resolves and a selector that matches, the engine starts writing the
\* output file.
ExtractInfo(r) ==
    /\ req[r].pc = "validated"
    /\ LET src == Catalog(req[r].url)
           sel == SelectFormat(req[r].route.kind, src)
           info == [title |-> src.title, ext |-> sel.ext, branch |-> sel.branch]
       IN  /\ req' = [req EXCEPT ![r].pc = "fetching", ![r].info = info,
                                 ![r].calls = req[r].calls + 1,
                                 ![r].after413 =
                                     \E o \in Requests : req[o].failure = "PayloadTooLarge"]
           /\ dir' = IF src.resolves /\ sel.branch # "none"
                     THEN BeginWrite(dir, ActualPath(req[r].route.kind, info))
                     ELSE dir
    /\ UNCHANGED life

\* Whether the engine got as far as writing the output file.
Downloading(r) == Catalog(req[r].url).resolves /\ req[r].info.branch # "none"

\* Whether the selected format goes through ffmpeg after the download.
PostProcessed(r) == req[r].route.kind = "song" \/ req[r].info.branch = "merge"

\* extract_info returns: the artifact is written.
ExtractInfoReturns(r) ==
    /\ req[r].pc = "fetching"
    /\ Downloading(r)
    /\ LET p == ActualPath(req[r].route.kind, req[r].info)
       IN  \E size \in Sizes : \E content \in ContentsAfter(dir[p]) :
              dir' = EndWrite(dir, p, size, content)
    /\ req' = [req EXCEPT ![r].pc = "downloaded"]
    /\ UNCHANGED life

\* extract_info raises: the url does not resolve, the selector matches
\* nothing, or the post-processor fails after the download started.  The
\* except clause turns the exception into the response.
ExtractInfoRaises(r) ==
    /\ req[r].pc = "fetching"
    /\ IF ~Catalog(req[r].url).resolves
       THEN Fail(r, "InvalidSource", 0) /\ dir' = dir
       ELSE IF req[r].info.branch = "none"
       THEN Fail(r, "NoMatchingFormat", 0) /\ dir' = dir
       ELSE /\ PostProcessed(r)
            /\ Fail(r, "TranscodeFailed", 0)
            /\ dir' = AbortWrite(dir, ActualPath(req[r].route.kind, req[r].info))
    /\ UNCHANGED life

\* A variant of the existence check that returns the FileResponse whether or
\* not the file is there.
ExistsCheckSkipped(r) ==
    /\ req[r].pc = "downloaded"
    /\ \E filename \in {ResolveFilename(req[r].route.kind, req[r].info)} :
           req' = [req EXCEPT ![r] = [ReturnFileResponse(r) EXCEPT
                                         !.filename = filename,
                                         !.exists = Exists(dir, filename)]]
    /\ UNCHANGED <<dir, life>>

\* filename = ydl.prepare_filename(info)[.replace(...)]; if os.path.exists(filename):
\* POST returns the FileResponse at once, GET goes on to the size check;
\* otherwise HTTPException(500, "File not found after download").
ExistsCheck(r) ==
    /\ req[r].pc = "downloaded"
    /\ \E filename \in {ResolveFilename(req[r].route.kind, req[r].info)} :
           IF Exists(dir, filename)
           THEN IF req[r].route.method = "POST"
                THEN req' = [req EXCEPT ![r] = [ReturnFileResponse(r) EXCEPT
                                                   !.filename = filename, !.exists = TRUE]]
                ELSE req' = [req EXCEPT ![r].pc = "exists", ![r].filename = filename,
                                        ![r].exists = TRUE]
           ELSE req' = [req EXCEPT ![r].pc = "failed", ![r].failure = "ArtifactMissing",
                                   ![r].filename = filename,
                                   ![r].status = ExceptStatus(500)]
    /\ UNCHANGED <<dir, life>>

\* A variant of the size check that deletes the artifact it rejects.
SizeGateRemoving(r) ==
    /\ req[r].pc = "exists"
    /\ LET file_size == dir[req[r].filename].size
       IN  IF TooLarge(file_size)
           THEN /\ req' = [req EXCEPT ![r].pc = "failed", ![r].failure = "PayloadTooLarge",
                                      ![r].file_size = file_size,
                                      ![r].status = ExceptStatus(413)]
                /\ dir' = [q \in DOMAIN dir \ {req[r].filename} |-> dir[q]]
           ELSE /\ req' = [req EXCEPT ![r] = [ReturnFileResponse(r) EXCEPT
                                                 !.file_size = file_size]]
                /\ dir' = dir
    /\ UNCHANGED life

\* GET only: file_size = os.path.getsize(filename) / (1024 * 1024);
\* if file_size > 50: raise HTTPException(status_code=413, ...); else the
\* FileResponse is returned.  Nothing is removed on either path.
SizeGate(r) ==
    /\ req[r].pc = "exists"
    /\ LET file_size == dir[req[r].filename].size
       IN  IF TooLarge(file_size)
           THEN req' = [req EXCEPT ![r].pc = "failed", ![r].failure = "PayloadTooLarge",
                                   ![r].file_size = file_size,
                                   ![r].status = ExceptStatus(413)]
           ELSE req' = [req EXCEPT ![r] = [ReturnFileResponse(r) EXCEPT
                                              !.file_size = file_size]]
    /\ UNCHANGED <<dir, life>>

\* The FileResponse is sent after the handler returned: the file is read then.
SendFile(r) ==
    /\ req[r].pc = "succeeded"
    /\ req' = [req EXCEPT ![r].pc = "sent",
                          ![r].served = IF Exists(dir, req[r].filename)
                                        THEN dir[req[r].filename].content
                                        ELSE "missing"]
    /\ UNCHANGED <<dir, life>>

(***************************************************************************)
(* Lifespan: the purge at shutdown                                         *)
(***************************************************************************)
\* How many times the process is started and shut down.
MaxPurgeRuns == 2

\* listing: what is left of os.listdir's result; stuck: the files os.remove
\* fails on; failed: the file the purge gave up on; before: the directory
\* as the purge found it; removed: every file a purge removed.
Serving == [pc |-> "serving", listing |-> {}, stuck |-> {}, failed |-> NONE,
            runs |-> 0, before |-> <<>>, removed |-> {}]

\* A variant of the purge's test that takes every directory entry for a file.
isfile_any(d, f) == TRUE

\* os.path.isfile(file_path)
isfile(d, f) == d[f].type = "file"

RegularFiles(d) == {f \in DOMAIN d : d[f].type = "file"}
Subdirectories(d) == {f \in DOMAIN d : d[f].type = "dir"}

Remove(d, f) == [q \in DOMAIN d \ {f} |-> d[q]]

\* The code after the lifespan's yield: for file in os.listdir("downloads").
Shutdown ==
    /\ life.pc = "serving"
    /\ life' = [life EXCEPT !.pc = "purging", !.listing = DOMAIN dir, !.failed = NONE,
                            !.runs = life.runs + 1, !.before = dir]
    /\ UNCHANGED <<req, dir>>

\* One turn of the loop on a regular file: os.remove(file_path) succeeds.
RemoveFile(f) ==
    /\ life.pc = "purging"
    /\ f \in life.listing
    /\ isfile(dir, f)
    /\ f \notin life.stuck
    /\ dir' = Remove(dir, f)
    /\ life' = [life EXCEPT !.listing = life.listing \ {f},
                            !.removed = life.removed \cup {f}]
    /\ UNCHANGED req

\* os.remove raises: the try statement encloses the whole loop, so the
\* except clause logs "Cleanup failed" and the loop is over.
RemoveFails(f) ==
    /\ life.pc = "purging"
    /\ f \in life.listing
    /\ isfile(dir, f)
    /\ f \in life.stuck
    /\ life' = [life EXCEPT !.pc = "stopped", !.listing = {}, !.failed = f]
    /\ UNCHANGED <<req, dir>>

\* One turn of the loop on an entry that is no regular file: nothing is done.
SkipEntry(f) ==
    /\ life.pc = "purging"
    /\ f \in life.listing
    /\ ~isfile(dir, f)
    /\ life' = [life EXCEPT !.listing = life.listing \ {f}]
    /\ UNCHANGED <<req, dir>>

\* The loop is through: the lifespan handler returns.
PurgeDone ==
    /\ life.pc = "purging"
    /\ life.listing = {}
    /\ life' = [life EXCEPT !.pc = "stopped"]
    /\ UNCHANGED <<req, dir>>

\* The process is started again on the directory the last run left:
\* if not os.path.exists("downloads"): os.makedirs("downloads").
Startup ==
    /\ life.pc = "stopped"
    /\ life.runs < MaxPurgeRuns
    /\ life' = [life EXCEPT !.pc = "serving"]
    /\ UNCHANGED <<req, dir>>

\* The directories a shutdown can find: artifacts of earlier requests and a
\* subdirectory with a file of its own.
SUBDIR == DOWNLOADS \o SLASH \o <<"s", "u", "b">>

CandidateFiles ==
    {ActualPath(route.kind, [title |-> Catalog(u).title,
                             ext |-> SelectFormat(route.kind, Catalog(u)).ext])
        : route \in Routes, u \in {URL_1, URL_2, URL_3}}

IdleFile(size) == [type |-> "file", size |-> size, content |-> "complete",
                   writers |-> 0, raced |-> FALSE]
Directory == [type |-> "dir", children |-> {<<"k", "e", "e", "p">>}]

PurgeInit ==
    /\ req = <<>>
    /\ \E files \in SUBSET CandidateFiles : \E subs \in SUBSET {SUBDIR} :
          /\ dir = [f \in files \cup subs |->
                       IF f \in files THEN IdleFile(MaxDirectMB * MiB) ELSE Directory]
          /\ \E stuck \in SUBSET files : life = [Serving EXCEPT !.stuck = stuck]

PurgeNext ==
    \/ Shutdown
    \/ \E f \in DOMAIN dir : RemoveFile(f)
    \/ \E f \in DOMAIN dir : RemoveFails(f)
    \/ \E f \in DOMAIN dir : SkipEntry(f)
    \/ PurgeDone
    \/ Startup

PurgeSpec == PurgeInit /\ [][PurgeNext]_vars

(***************************************************************************)
(* Serving requests                                                        *)
(***************************************************************************)
Init ==
    /\ req = [r \in Requests |-> Idle]
    /\ dir = <<>>
    /\ life = Serving

Next ==
    \/ \E r \in Requests : Receive(r)
    \/ \E r \in Requests : Validate(r)
    \/ \E r \in Requests : ExtractInfo(r)
    \/ \E r \in Requests : ExtractInfoReturns(r)
    \/ \E r \in Requests : ExtractInfoRaises(r)
    \/ \E r \in Requests : ExistsCheck(r)
    \/ \E r \in Requests : SizeGate(r)
    \/ \E r \in Requests : SendFile(r)

Spec == Init /\ [][Next]_vars

\* A step of the handler of a request that was received.
Handle ==
    \E r \in Requests :
        \/ Validate(r) \/ ExtractInfo(r) \/ ExtractInfoReturns(r) \/ ExtractInfoRaises(r)
        \/ ExistsCheck(r) \/ SizeGate(r) \/ SendFile(r)

\* A handler that can take a step takes one: the server runs every handler
\* it started, and the engine call returns or raises.  No handler step
\* disables another request's, so this serves every request.
FairSpec == Spec /\ WF_vars(Handle)

(***************************************************************************)
(* Properties                                                              *)
(***************************************************************************)
Succeeded(r) == req[r].pc \in {"succeeded", "sent"}
Failed(r) == req[r].pc = "failed"
Terminal(r) == Succeeded(r) \/ Failed(r)
ClientError == 400..499
ServerError == 500..599

\* C1: a GET request whose artifact exists and was measured ends with status
\* 413 when the artifact is larger than 50 MiB and with status 200 otherwise.
C1_OversizedDirectIs413 ==
    \A r \in Requests :
        (req[r].route.method = "GET" /\ req[r].exists /\ Terminal(r))
            => IF TooLarge(req[r].file_size) THEN req[r].status = 413
                                             ELSE req[r].status = 200

\* C2: a request whose url is the empty string never reaches the engine and
\* ends as an InvalidRequest client error.
C2_EmptyUrlRejectedBeforeEngine ==
    \A r \in Requests :
        req[r].url = EMPTY
            => /\ req[r].calls = 0
               /\ Terminal(r) => (req[r].failure = "InvalidRequest"
                                  /\ req[r].status \in ClientError)

\* C3 as claimed: InvalidRequest, InvalidSource and NoMatchingFormat end with
\* a client-error status, and only TranscodeFailed, ArtifactMissing and
\* StorageUnavailable end with a server-error status.  (Stated for requests
\* whose url is not the empty string, which C2 is about.)
C3_StatusDistinguishesKind ==
    \A r \in Requests :
        (Failed(r) /\ req[r].url # EMPTY)
            => /\ req[r].failure \in {"InvalidRequest", "InvalidSource", "NoMatchingFormat"}
                    => req[r].status \in ClientError
               /\ req[r].status \in ServerError
                    => req[r].failure \in {"TranscodeFailed", "ArtifactMissing",
                                           "StorageUnavailable"}

\* C3 as amended: a request without url is rejected before the handler runs
\* with status 422 and no engine call; every failure raised inside a handler
\* (InvalidSource and NoMatchingFormat as much as TranscodeFailed and
\* ArtifactMissing) ends with status 500.
C3_HandlerFailuresAre500 ==
    \A r \in Requests :
        Failed(r)
            => /\ req[r].failure = "InvalidRequest"
                    <=> (req[r].url = ABSENT /\ req[r].status = 422 /\ req[r].calls = 0)
               /\ req[r].failure \in {"InvalidSource", "NoMatchingFormat",
                                      "TranscodeFailed", "ArtifactMissing"}
                    => req[r].status = 500

C3_Witness ==
    \E r, o \in Requests :
        /\ Failed(r) /\ req[r].failure = "InvalidSource" /\ req[r].url = URL_BAD
        /\ req[r].status = 500
        /\ Failed(o) /\ req[o].failure = "NoMatchingFormat" /\ req[o].status = 500

\* C4: an audio request whose engine call returned, leaving <stem>.mp3 in the
\* directory, and that is not rejected for size, resolves to <stem>.mp3 and
\* ends with 200 and audio/mpeg, never with "File not found after download".
C4_AudioArtifactLocated ==
    \A r \in Requests :
        (req[r].route.kind = "song" /\ Terminal(r) /\ req[r].calls = 1
         /\ Exists(dir, ActualPath("song", req[r].info))
         /\ req[r].failure \notin {"InvalidSource", "NoMatchingFormat", "TranscodeFailed",
                                    "PayloadTooLarge"})
            => /\ req[r].failure # "ArtifactMissing"
               /\ req[r].status = 200
               /\ req[r].media_type = "audio/mpeg"
               /\ req[r].filename = ActualPath("song", req[r].info)

\* C5: a video request that ends with 200 and media type video/mp4 serves a
\* file in the mp4 container, whichever branch of the selector was taken.
C5_VideoServedIsMp4 ==
    \A r \in Requests :
        (req[r].route.kind = "video" /\ req[r].status = 200
         /\ req[r].media_type = "video/mp4")
            => ExtOf(req[r].filename) = MP4

C7_PurgeRemovesFilesOnly ==
    (life.pc = "stopped" /\ life.failed = NONE)
        => /\ RegularFiles(dir) = {}
           /\ \A s \in Subdirectories(life.before) :
                 s \in DOMAIN dir /\ dir[s] = life.before[s]
           /\ RegularFiles(life.before) = {} => dir = life.before

\* A second purge ended after the first removed files next to a subdirectory.
C7_Witness ==
    /\ life.pc = "stopped" /\ life.failed = NONE /\ life.runs = 2
    /\ Cardinality(life.removed) >= 2
    /\ SUBDIR \in DOMAIN dir
    /\ RegularFiles(life.before) = {}

\* C8: when a removal fails, the purge still removes every regular file whose
\* removal does not fail, and the shutdown completes.
C8_PurgeContinuesAfterError ==
    (life.pc = "stopped" /\ life.failed # NONE)
        => RegularFiles(dir) \subseteq life.stuck

Phase(q) ==
    CASE q.pc = "idle" -> "IDLE"
      [] q.pc = "received" -> "RECEIVED"
      [] q.pc = "validated" -> "VALIDATED"
      [] q.pc \in {"fetching", "downloaded", "exists"} -> "FETCHING"
      [] q.pc \in {"succeeded", "sent"} -> "SUCCEEDED"
      [] q.pc = "failed" -> "FAILED"

PhaseOrder ==
    {<<"IDLE", "RECEIVED">>, <<"RECEIVED", "VALIDATED">>, <<"RECEIVED", "FAILED">>, <<"VALIDATED", "FETCHING">>,
     <<"FETCHING", "SUCCEEDED">>, <<"FETCHING", "FAILED">>}

\* C10: every request moves RECEIVED -> VALIDATED -> FETCHING -> SUCCEEDED or
\* FAILED (a request without url fails from RECEIVED), reaches a terminal
\* state, keeps it and its status, calls the engine at most once, and is
\* SUCCEEDED only when the existence check on the resolved path was true.
C10_RequestStateMachine ==
    /\ [](\A r \in Requests :
             /\ req[r].calls <= 1
             /\ Succeeded(r) => (req[r].exists /\ req[r].status = 200 /\ req[r].calls = 1)
             /\ Failed(r) => req[r].status \in ClientError \cup ServerError
             /\ ~Terminal(r) => req[r].status = 0)
    /\ [][\A r \in Requests :
             /\ Phase(req[r]) # Phase(req'[r])
                   => <<Phase(req[r]), Phase(req'[r])>> \in PhaseOrder
             /\ Terminal(r) => req'[r].status = req[r].status]_vars
    /\ \A r \in Requests : (req[r].pc = "received") ~> Terminal(r)

C10_Witness ==
    \E r, o \in Requests :
        /\ req[r].pc = "sent" /\ req[r].status = 200 /\ req[r].calls = 1
        /\ Failed(o) /\ req[o].failure = "TranscodeFailed" /\ req[o].calls = 1

====
